---- MODULE Spec2Model ----
(***************************************************************************)
(* Model of the export path of the Ratings & Reviews explorer:             *)
(* execute_manual_export (module2_manual_export.py) and                    *)
(* execute_bulk_export (module3_bulk_export.py), the export_in_progress    *)
(* guard they share in st.session_state, the cursor pagination loop with   *)
(* its duplicate filter and stop conditions, and the storing of results;    *)
(* of the configuration import and export, load_configuration_from_json    *)
(* and export_configuration_to_json (utils.py), with the session state     *)
(* they read and write; of the query derived from the filters,             *)
(* build_filter_params (utils.py) and the parameter filter of the API      *)
(* client (api_client.py); and of the page controls of the results view,   *)
(* display_bulk_export_results and display_export_results.                 *)
(*                                                                         *)
(* An invocation is a frame inv[p]: its program position pc and the local  *)
(* variables of the function.  The program has no threads of its own: an   *)
(* invocation gives up control only inside a call (the API client), so     *)
(* every such call is one step.  No call lies between the guard test and   *)
(* the guard assignment, which are one step; what follows the loop         *)
(* (storing, logging, the finally block) belongs to the step that ends it. *)
(*                                                                         *)
(* Encodings.  A document is reduced to its id: NoIdKey is a document      *)
(* without an 'id' key, EmptyId one whose id is falsy (""), 1..MaxId the   *)
(* non-empty ids.  A nextCursorMark that is absent or empty is "" (the     *)
(* source tests it with `not next_cursor`).                                *)
(***************************************************************************)
EXTENDS Integers, Sequences, FiniteSets, TLC

VARIABLES
    export_in_progress,   \* st.session_state.export_in_progress
    ss_all_docs,          \* st.session_state.all_docs
    ss_export_params,     \* st.session_state.export_params
    ss_is_preview_mode,   \* st.session_state.is_preview_mode
    export_log,           \* rows of review_exports_log.csv
    inv,                  \* the invocations: position and local variables
    filters,              \* st.session_state.filters
    apply_filters,        \* st.session_state.apply_filters
    selected_product_ids, \* st.session_state.selected_product_ids
    load_result,          \* what the last load_configuration_from_json returned
    load_input,           \* observation: the kind of input it was given
    load_products,        \* observation: the product list of that input
    current_page          \* st.session_state.current_page

vars == <<export_in_progress, ss_all_docs, ss_export_params, ss_is_preview_mode,
          export_log, inv, filters, apply_filters, selected_product_ids,
          load_result, load_input, load_products, current_page>>

----------------------------------------------------------------------------
(* Bounds of the model *)

\* document ids are 1..MaxId
MaxId == 2
\* a page of the server carries at most MaxPageLen documents
MaxPageLen == 2
\* after its first MaxLongPages pages the server sends one document a page
MaxLongPages == 3
\* the metrics endpoint reports nbDocs in 0..MaxTotal
MaxTotal == 2
\* SpecReentry: the server's cursor advances on at most MaxReentryPages pages
MaxReentryPages == 2
\* SpecPaged: a page that is not full carries ShortPageLen documents
ShortPageLen == 3
\* SpecPaged: the server's cursor advances on at most MaxPagedPages pages
MaxPagedPages == 4
\* SpecConfig: the strings of a configuration have at most MaxStrLen characters
MaxStrLen == 2

----------------------------------------------------------------------------
(* Constants of the program *)

BulkMaxIterFull == 1000
BulkMaxIterPreview == 10
ManualMaxIterFull == 20
ManualMaxIterPreview == 10
BulkPreviewCap == 100
ManualPreviewCap == 50
BulkPreviewRows == 100
ManualPreviewRows == 50
RetryPage == 2
RetryMinRows == 10
DisplayRowsPerPage == 100

\* a document without an 'id' key
NoIdKey == -1
\* a document whose 'id' is present and falsy
EmptyId == 0
\* total_available before the metrics call
Unset == -1
\* nbDocs present but null in the metrics reply
NullDocs == -2

Procs == {1, 2}
\* one script run per session: the invocations of Spec
SeqProcs == {1}

Kinds == {"manual", "bulk"}
\* rows_per_page of the number_input widgets (min_value 10, step 10 / 50)
RowsChoices == {10, 100}
\* nextCursorMark values of a reply
NextCursors == {"", "*", "c1"}

DocValues == {NoIdKey, EmptyId} \cup (1..MaxId)

SeqsUpTo(S, n) == UNION {[1..k -> S] : k \in 0..n}

----------------------------------------------------------------------------
(* Helpers of the source *)

Min(a, b) == IF a <= b THEN a ELSE b

\* max_iterations = 1000 if not is_preview else 10 / 20 if not is_preview else 10
MaxIterations(kind, is_preview) ==
    IF kind = "bulk"
    THEN (IF is_preview THEN BulkMaxIterPreview ELSE BulkMaxIterFull)
    ELSE (IF is_preview THEN ManualMaxIterPreview ELSE ManualMaxIterFull)

\* the preview caps: len(all_docs) >= 100 (bulk), >= 50 (manual)
PreviewCap(kind) == IF kind = "bulk" THEN BulkPreviewCap ELSE ManualPreviewCap

\* params["rows"] = min(rows_per_page, cap) if is_preview else rows_per_page
ClampRows(kind, is_preview, rows_per_page) ==
    IF is_preview
    THEN Min(rows_per_page,
             IF kind = "bulk" THEN BulkPreviewRows ELSE ManualPreviewRows)
    ELSE rows_per_page

\* the export parameters of an invocation: rows, and the product list that
\* only the manual export adds (include_product_list=True)
ExportParams(f) ==
    [rows |-> ClampRows(f.kind, f.is_preview, f.rows_per_page),
     product |-> (f.kind = "manual")]

\* WhileCond with the bound tested inclusively
WhileCondInclusive(page_count, max_iterations) == page_count <= max_iterations

\* while page_count < max_iterations
WhileCond(page_count, max_iterations) == page_count < max_iterations

\* NextPageCount without the increment
NextPageCountStuck(page_count) == page_count

\* page_count += 1
NextPageCount(page_count) == page_count + 1

\* existing_ids = {doc.get('id') for doc in all_docs if doc.get('id')}
ExistingIds(all_docs) ==
    {all_docs[i] : i \in {j \in DOMAIN all_docs : all_docs[j] > 0}}

\* new_docs = [doc for doc in docs if doc.get('id') not in existing_ids]
NewDocs(all_docs, docs) ==
    LET existing_ids == ExistingIds(all_docs)
        Fresh(d) == d \notin existing_ids
    IN  SelectSeq(docs, Fresh)

\* ExtendDocs inserting the page in front of the collection
ExtendDocsInFront(all_docs, docs) ==
    IF all_docs # <<>> /\ Len(docs) > 0 /\ docs[1] # NoIdKey
    THEN NewDocs(all_docs, docs) \o all_docs
    ELSE docs \o all_docs

\* if all_docs and 'id' in docs[0]: all_docs.extend(new_docs)
\* else: all_docs.extend(docs)
ExtendDocs(all_docs, docs) ==
    IF all_docs # <<>> /\ Len(docs) > 0 /\ docs[1] # NoIdKey
    THEN all_docs \o NewDocs(all_docs, docs)
    ELSE all_docs \o docs

\* duplicates_found = len(docs) - len(new_docs), reported by st.warning in the
\* branch that filters; nothing is reported in the other branch
DuplicatesFound(all_docs, docs) ==
    IF all_docs # <<>> /\ Len(docs) > 0 /\ docs[1] # NoIdKey
    THEN Len(docs) - Len(NewDocs(all_docs, docs))
    ELSE 0

----------------------------------------------------------------------------
(* The stop conditions, in the order the source tests them after a page *)

\* BulkStop without the test of an identical cursor
BulkStopNoStall(is_preview, n, next_cursor, cursor_mark, total_available) ==
    IF is_preview /\ n >= BulkPreviewCap THEN "PREVIEW_LIMIT"
    ELSE IF next_cursor = "" THEN "NO_NEXT_CURSOR"
    ELSE IF n >= total_available THEN "COMPLETE"
    ELSE "NONE"

\* module3_bulk_export.py: preview limit, then the cursor tests, then the total
BulkStop(is_preview, n, next_cursor, cursor_mark, total_available) ==
    IF is_preview /\ n >= BulkPreviewCap THEN "PREVIEW_LIMIT"
    ELSE IF next_cursor = "" THEN "NO_NEXT_CURSOR"
    ELSE IF next_cursor = cursor_mark THEN "CURSOR_STALLED"
    ELSE IF n >= total_available THEN "COMPLETE"
    ELSE "NONE"

\* module2_manual_export.py: the cursor tests, then the total, then the preview limit
ManualStop(is_preview, n, next_cursor, cursor_mark, total_available) ==
    IF next_cursor = "" THEN "NO_NEXT_CURSOR"
    ELSE IF next_cursor = cursor_mark THEN "CURSOR_STALLED"
    ELSE IF n >= total_available THEN "COMPLETE"
    ELSE IF is_preview /\ n >= ManualPreviewCap THEN "PREVIEW_LIMIT"
    ELSE "NONE"

\* StopAfterPage with the preview limit applied in full mode too
StopAfterPageCapped(kind, is_preview, n, next_cursor, cursor_mark, total_available) ==
    IF kind = "bulk"
    THEN BulkStop(TRUE, n, next_cursor, cursor_mark, total_available)
    ELSE ManualStop(TRUE, n, next_cursor, cursor_mark, total_available)

StopAfterPage(kind, is_preview, n, next_cursor, cursor_mark, total_available) ==
    IF kind = "bulk"
    THEN BulkStop(is_preview, n, next_cursor, cursor_mark, total_available)
    ELSE ManualStop(is_preview, n, next_cursor, cursor_mark, total_available)

\* the diagnostic of the manual export on an identical cursor:
\* if page_count == 2 and export_params["rows"] > 10: get_reviews(rows=5)
RetriesSmall(kind, reason, page_count, rows) ==
    kind = "manual" /\ reason = "CURSOR_STALLED"
    /\ page_count = RetryPage /\ rows > RetryMinRows

----------------------------------------------------------------------------
(* The configuration import: load_configuration_from_json (utils.py) *)

\* A string is a sequence of characters.  A JSON value is a record: t is its
\* type, s its characters (a string), l its items (a list), d a day number (a
\* date, or the string that str() gives for that date).
Chars == {"a", ",", " "}
Texts == SeqsUpTo(Chars, MaxStrLen)

Absent == [t |-> "absent", s |-> <<>>, l |-> <<>>, d |-> 0]
Str(s) == [t |-> "str", s |-> s, l |-> <<>>, d |-> 0]
List(l) == [t |-> "list", s |-> <<>>, l |-> l, d |-> 0]
Date(d) == [t |-> "date", s |-> <<>>, l |-> <<>>, d |-> d]
\* the string "YYYY-MM-DD" of day d
DateText(d) == [t |-> "str", s |-> <<"#">>, l |-> <<>>, d |-> d]

\* datetime.date.today()
Today == 9
\* datetime.date(2022, 1, 1)
DefaultStartDate == 0
ALL == <<"A", "L", "L">>

\* pd.to_datetime(date_str) succeeds
ParsesAsDate(v) == v.s = <<"#">>

\* for key in ["start-date", "end-date"]: a string becomes the date it
\* parses to, or today when it does not parse; other values are kept
ConvertDate(v) ==
    IF v.t = "str"
    THEN (IF ParsesAsDate(v) THEN Date(v.d) ELSE Date(Today))
    ELSE v

RECURSIVE LStrip(_)
LStrip(s) == IF s # <<>> /\ Head(s) = " " THEN LStrip(Tail(s)) ELSE s

RECURSIVE RStrip(_)
RStrip(s) ==
    IF s # <<>> /\ s[Len(s)] = " " THEN RStrip(SubSeq(s, 1, Len(s) - 1)) ELSE s

\* str.strip()
Strip(s) == RStrip(LStrip(s))

RECURSIVE Split(_)
\* str.split(",")
Split(s) ==
    IF \E i \in DOMAIN s : s[i] = ","
    THEN LET i == CHOOSE k \in DOMAIN s :
                     s[k] = "," /\ \A j \in 1..(k - 1) : s[j] # ","
         IN  <<SubSeq(s, 1, i - 1)>> \o Split(SubSeq(s, i + 1, Len(s)))
    ELSE <<s>>

\* ProcessListField that reads lists only
ProcessListFieldListsOnly(v) ==
    IF v.t = "list" /\ v.l # <<>> THEN v.l ELSE <<>>

\* process_list_field: the stripped, non-empty items of a string, a list as
\* it is, [] for anything else or a falsy value
ProcessListField(v) ==
    IF v.t = "str" /\ v.s # <<>>
    THEN LET items == Split(v.s)
             stripped == [i \in DOMAIN items |-> Strip(items[i])]
             NonEmpty(x) == x # <<>>
         IN  SelectSeq(stripped, NonEmpty)
    ELSE IF v.t = "list" /\ v.l # <<>> THEN v.l
    ELSE <<>>

\* parsed.get(key, default)
GetOr(v, default) == IF v.t = "absent" THEN default ELSE v

\* a JSON object without keys
EmptyObject ==
    [start_date |-> Absent, end_date |-> Absent, category |-> Absent,
     subcategory |-> Absent, brand |-> Absent, country |-> Absent,
     source |-> Absent, market |-> Absent, attributes |-> Absent,
     attributes_positive |-> Absent, attributes_negative |-> Absent,
     selected_products |-> Absent]

\* st.session_state.filters = {}
NoFilters ==
    [empty |-> TRUE, start_date |-> Absent, end_date |-> Absent,
     category |-> Absent, subcategory |-> Absent, brand |-> <<>>,
     country |-> <<>>, source |-> <<>>, market |-> <<>>, attributes |-> <<>>,
     attributes_positive |-> <<>>, attributes_negative |-> <<>>]

\* the filters dict built from the parsed object
FiltersOf(parsed) ==
    [empty |-> FALSE,
     start_date |-> GetOr(parsed.start_date, Date(DefaultStartDate)),
     end_date |-> GetOr(parsed.end_date, Date(Today)),
     category |-> GetOr(parsed.category, Str(ALL)),
     subcategory |-> GetOr(parsed.subcategory, Str(ALL)),
     brand |-> ProcessListField(parsed.brand),
     country |-> ProcessListField(parsed.country),
     source |-> ProcessListField(parsed.source),
     market |-> ProcessListField(parsed.market),
     attributes |-> ProcessListField(parsed.attributes),
     attributes_positive |-> ProcessListField(parsed.attributes_positive),
     attributes_negative |-> ProcessListField(parsed.attributes_negative)]

\* load_configuration_from_json(json_input) in a session whose state is
\* old: the return value and the session state it leaves.  An input that
\* does not start with '{' or does not parse is refused before any
\* assignment; a parsed object is applied with defaults for what it lacks.
LoadConfigurationFromJson(json_input, old) ==
    IF json_input.form # "object"
    THEN [old EXCEPT !.result = "rejected"]
    ELSE LET parsed == [json_input.obj EXCEPT
                           !.start_date = ConvertDate(@),
                           !.end_date = ConvertDate(@)]
             selected_products == ProcessListField(parsed.selected_products)
         IN  [result |-> "accepted",
              filters |-> FiltersOf(parsed),
              apply_filters |-> TRUE,
              selected_product_ids |->
                  IF selected_products # <<>> THEN selected_products
                  ELSE old.selected_product_ids]

\* the inputs: text that is not an object, an object that does not parse,
\* and objects with or without dates, categories, brands and products
DateValues == {Absent, DateText(1), Str(<<"a">>)}
CategoryValues == {Absent, Str(<<"a">>)}
BrandValues == {Absent, List(<<>>), List(<<<<"a">>>>)} \cup {Str(s) : s \in Texts}
ProductValues == {Absent, List(<<<<"a">>>>), Str(<<"a", ",">>)}

JsonInputs ==
    {[form |-> "text", obj |-> EmptyObject],
     [form |-> "broken", obj |-> EmptyObject]}
    \cup {[form |-> "object",
           obj |-> [EmptyObject EXCEPT !.start_date = sd, !.end_date = ed,
                                       !.category = c, !.subcategory = sc,
                                       !.brand = b, !.selected_products = sp]] :
            sd \in DateValues, ed \in {Absent, DateText(2)},
            c \in CategoryValues, sc \in CategoryValues,
            b \in BrandValues, sp \in ProductValues}

\* SpecSession: complete configurations whose fields are set, left out, empty
\* or "ALL"
SessionCategories == {Str(ALL), Str(<<>>), Str(<<"a">>)}
SessionBrands == {Absent, Str(ALL), Str(<<"a">>), List(<<ALL, <<"a">>>>)}
SessionCountries == {Absent, Str(ALL), Str(<<"a">>), List(<<<<"a">>, ALL>>)}
SessionAttributes == {Absent, List(<<ALL>>), List(<<<<"a">>>>)}
SessionProducts == {Absent, List(<<<<"a">>>>)}

SessionInputs ==
    {[form |-> "object",
      obj |-> [EmptyObject EXCEPT !.start_date = DateText(1), !.end_date = DateText(2),
                                  !.category = c, !.subcategory = Str(ALL),
                                  !.brand = b, !.country = co, !.attributes = at,
                                  !.selected_products = sp]] :
        c \in SessionCategories, b \in SessionBrands, co \in SessionCountries,
        at \in SessionAttributes, sp \in SessionProducts}

\* SpecRoundTrip: complete configurations whose brand list holds any item,
\* with commas, blanks or nothing in it
RoundTripBrands ==
    {Absent, List(<<<<"a">>, <<"a">>>>)} \cup {List(<<t>>) : t \in Texts}

RoundTripInputs ==
    {[form |-> "object",
      obj |-> [EmptyObject EXCEPT !.start_date = DateText(1), !.end_date = DateText(2),
                                  !.category = c, !.subcategory = Str(ALL),
                                  !.brand = b, !.country = co, !.attributes = at,
                                  !.selected_products = sp]] :
        c \in {Str(ALL), Str(<<"a">>)}, b \in RoundTripBrands,
        co \in {Absent, List(<<ALL>>), List(<<<<"a">>>>)},
        at \in {Absent, List(<<<<"a">>>>)}, sp \in SessionProducts}

----------------------------------------------------------------------------
(* The derived query: build_filter_params (utils.py) and the parameter      *)
(* filter of APIClient.get_metrics / get_reviews (api_client.py)            *)

\* bool(v)
Truthy(v) ==
    CASE v.t = "str" -> v.s # <<>>
      [] v.t = "list" -> v.l # <<>>
      [] v.t = "date" -> TRUE
      [] OTHER -> FALSE

RECURSIVE Join(_)
\* ",".join(items)
Join(items) ==
    IF items = <<>> THEN <<>>
    ELSE IF Len(items) = 1 THEN items[1]
    ELSE items[1] \o <<",">> \o Join(Tail(items))

\* "ALL" in items
HasAll(items) == \E i \in DOMAIN items : items[i] = ALL

\* params = {}
NoParams ==
    [start_date |-> Absent, end_date |-> Absent, category |-> Absent,
     subcategory |-> Absent, brand |-> Absent, country |-> Absent,
     source |-> Absent, market |-> Absent, attribute |-> Absent,
     attribute_positive |-> Absent, attribute_negative |-> Absent,
     product |-> Absent]

\* build_filter_params(filters, include_product_list) in a session whose
\* selected_product_ids is products
BuildFilterParams(fl, include_product_list, products) ==
    [start_date |-> IF Truthy(fl.start_date) THEN fl.start_date ELSE Absent,
     end_date |-> IF Truthy(fl.end_date) THEN fl.end_date ELSE Absent,
     category |-> IF Truthy(fl.category) /\ fl.category # Str(ALL)
                  THEN fl.category ELSE Absent,
     subcategory |-> IF Truthy(fl.subcategory) /\ fl.subcategory # Str(ALL)
                     THEN fl.subcategory ELSE Absent,
     brand |-> IF fl.brand # <<>> THEN Str(Join(fl.brand)) ELSE Absent,
     country |-> IF fl.country # <<>> /\ ~HasAll(fl.country)
                 THEN Str(Join(fl.country)) ELSE Absent,
     source |-> IF fl.source # <<>> /\ ~HasAll(fl.source)
                THEN Str(Join(fl.source)) ELSE Absent,
     market |-> IF fl.market # <<>> /\ ~HasAll(fl.market)
                THEN Str(Join(fl.market)) ELSE Absent,
     attribute |-> IF fl.attributes # <<>> THEN Str(Join(fl.attributes)) ELSE Absent,
     attribute_positive |-> IF fl.attributes_positive # <<>>
                            THEN Str(Join(fl.attributes_positive)) ELSE Absent,
     attribute_negative |-> IF fl.attributes_negative # <<>>
                            THEN Str(Join(fl.attributes_negative)) ELSE Absent,
     product |-> IF include_product_list /\ products # <<>>
                 THEN Str(Join(products)) ELSE Absent]

\* filters.get(key, "ALL")
GetCategory(v) == IF v.t = "absent" THEN Str(ALL) ELSE v

\* str(filters["start_date"])
DateStr(v) == IF v.t = "date" THEN DateText(v.d) ELSE v

\* export_configuration_to_json(filters, selected_products): the object
\* that json.dumps writes and json.loads reads back
ExportConfigurationToJson(fl, selected_products) ==
    [start_date |-> DateStr(fl.start_date),
     end_date |-> DateStr(fl.end_date),
     category |-> GetCategory(fl.category),
     subcategory |-> GetCategory(fl.subcategory),
     brand |-> IF fl.brand # <<>> THEN Str(Join(fl.brand)) ELSE Absent,
     country |-> IF fl.country # <<>> /\ ~HasAll(fl.country)
                 THEN Str(Join(fl.country)) ELSE Absent,
     source |-> IF fl.source # <<>> /\ ~HasAll(fl.source)
                THEN Str(Join(fl.source)) ELSE Absent,
     market |-> IF fl.market # <<>> /\ ~HasAll(fl.market)
                THEN Str(Join(fl.market)) ELSE Absent,
     attributes |-> IF fl.attributes # <<>> THEN List(fl.attributes) ELSE Absent,
     attributes_positive |-> IF fl.attributes_positive # <<>>
                             THEN List(fl.attributes_positive) ELSE Absent,
     attributes_negative |-> IF fl.attributes_negative # <<>>
                             THEN List(fl.attributes_negative) ELSE Absent,
     selected_products |-> IF selected_products # <<>>
                           THEN List(selected_products) ELSE Absent]

\* CleanValue without the test value != "ALL"
CleanValueKeepsAll(v) ==
    IF Truthy(v)
    THEN (IF v.t = "list" THEN Str(Join(v.l))
          ELSE IF v.t = "date" THEN DateText(v.d)
          ELSE v)
    ELSE Absent

\* get_metrics / get_reviews: if value and value != "ALL": a list is joined,
\* another value becomes str(value); else the parameter is left out
CleanValue(v) ==
    IF Truthy(v) /\ v # Str(ALL)
    THEN (IF v.t = "list" THEN Str(Join(v.l))
          ELSE IF v.t = "date" THEN DateText(v.d)
          ELSE v)
    ELSE Absent

\* clean_params: the parameters of the request
CleanParams(params) == [k \in DOMAIN params |-> CleanValue(params[k])]

\* the manual export passes include_product_list=True, the bulk export
\* does not
IncludesProducts(kind) == kind = "manual"

\* export_params / bulk_params = build_filter_params(...), before rows and
\* random are added
FilterParams(kind, fl, products) ==
    BuildFilterParams(fl, IncludesProducts(kind), products)

\* MetricsParams built without the product list in both exports
MetricsParamsNoProducts(kind, fl, products) == BuildFilterParams(fl, FALSE, products)

\* the argument of get_metrics: build_filter_params(filters,
\* include_product_list=True) in the manual export, build_filter_params(filters)
\* in the bulk export
MetricsParams(kind, fl, products) ==
    BuildFilterParams(fl, IncludesProducts(kind), products)

----------------------------------------------------------------------------
(* Frames *)

\* the frame of an invocation that has not been made
IdleFrame ==
    [pc |-> "idle", kind |-> "bulk", is_preview |-> FALSE, rows_per_page |-> 0,
     total_available |-> Unset, cursor_mark |-> "*", next_cursor |-> "",
     page_count |-> 0, all_docs |-> <<>>, reason |-> "NONE",
     metrics_calls |-> 0, probe_calls |-> 0, retry_calls |-> 0,
     sent_cursor |-> "", resp_cursor |-> "", clean |-> TRUE,
     docs |-> <<>>, duplicates_found |-> 0, seen_before |-> 0,
     report |-> [retrieved |-> Unset, expected |-> Unset, missing |-> FALSE],
     metrics_failed |-> FALSE, log_failed |-> FALSE,
     filters |-> NoFilters, params |-> NoParams, metrics_params |-> NoParams]

\* the calls an invocation made to get_reviews: the probe, one call in each
\* iteration (page_count is incremented once before each), the retry
ReviewCalls(f) == f.probe_calls + f.page_count + f.retry_calls

\* GuardAfterExit with the release at the end of the try body instead of in
\* a finally block: the early return and the exception keep the flag
GuardAfterExitNoFinally(path) == path \in {"NO_DATA", "EXCEPTION"}

\* the value the finally block leaves in export_in_progress on an exit path
GuardAfterExit(path) == FALSE

\* return / except inside try ... finally: the frame ends, nothing is stored
Exit(f, why) == [f EXCEPT !.pc = "done", !.reason = why]

\* after the metrics (and the probe of the manual export): the early return on
\* total_available == 0, the TypeError of min()/+ on a null nbDocs, or the
\* initialisation of the pagination variables
AfterMetrics(f) ==
    IF f.total_available = 0 THEN Exit(f, "NO_DATA")
    ELSE IF f.total_available = NullDocs THEN Exit(f, "EXCEPTION")
    ELSE [f EXCEPT !.pc = "loop", !.cursor_mark = "*", !.page_count = 0,
                   !.all_docs = <<>>]

\* observation: every document of the page has a non-empty id that occurs once
\* in the page and was not delivered before
CleanPage(all_docs, docs) ==
    /\ \A i \in DOMAIN docs : docs[i] > 0 /\ docs[i] \notin ExistingIds(all_docs)
    /\ \A i, j \in DOMAIN docs : docs[i] = docs[j] => i = j

\* observation: the documents of the page whose non-empty id is the id of a
\* document delivered by an earlier page
SeenBefore(all_docs, docs) ==
    Cardinality({i \in DOMAIN docs : docs[i] > 0 /\ docs[i] \in ExistingIds(all_docs)})

\* OnFail with a return in place of the break: the statements after the
\* loop do not run
OnFailReturns(f) == Exit(f, "ERROR")

\* if not result: st.error(...); break
OnFail(f) == [f EXCEPT !.pc = "stopped", !.reason = "ERROR"]

\* one iteration of the loop on the reply r of get_reviews; f.page_count is
\* already incremented
OnReply(f, r) ==
    IF r.status = "malformed" THEN Exit(f, "EXCEPTION")
    ELSE IF r.status = "fail" THEN OnFail(f)
    ELSE IF r.docs = <<>> THEN [f EXCEPT !.pc = "stopped", !.reason = "EMPTY_PAGE"]
    ELSE
      LET docs_after == ExtendDocs(f.all_docs, r.docs)
          why == StopAfterPage(f.kind, f.is_preview, Len(docs_after), r.next,
                               f.cursor_mark, f.total_available)
          cursor_read == ~(f.kind = "bulk" /\ why = "PREVIEW_LIMIT")
          cursor_updated == why \in {"NONE", "COMPLETE"}
                            \/ (f.kind = "manual" /\ why = "PREVIEW_LIMIT")
      IN  [f EXCEPT
             !.all_docs = docs_after,
             !.clean = @ /\ CleanPage(f.all_docs, r.docs),
             !.docs = r.docs,
             !.duplicates_found = DuplicatesFound(f.all_docs, r.docs),
             !.seen_before = SeenBefore(f.all_docs, r.docs),
             !.resp_cursor = r.next,
             !.next_cursor = IF cursor_read THEN r.next ELSE @,
             !.cursor_mark = IF cursor_updated THEN r.next ELSE @,
             !.reason = why,
             !.pc = IF why = "NONE" THEN "loop"
                    ELSE IF RetriesSmall(f.kind, why, f.page_count,
                                         ExportParams(f).rows)
                         THEN "retry"
                         ELSE "stopped"]

----------------------------------------------------------------------------
(* The environment: replies of the API client *)

\* get_metrics: {} on a failure, else a result whose nbDocs is a count or null
MetricsReplies ==
    {[status |-> "fail", nbDocs |-> 0], [status |-> "null", nbDocs |-> 0]}
    \cup [status : {"ok"}, nbDocs : 0..MaxTotal]

\* metrics.get("nbDocs", 0) if metrics else 0
NbDocs(m) ==
    IF m.status = "fail" THEN 0
    ELSE IF m.status = "null" THEN NullDocs
    ELSE m.nbDocs

\* get_reviews for the page after f.page_count pages: {} on a failure, a
\* payload the loop cannot process, or docs and nextCursorMark
Replies(f) ==
    {[status |-> "fail", docs |-> <<>>, next |-> ""],
     [status |-> "malformed", docs |-> <<>>, next |-> ""]}
    \cup [status : {"ok"},
          docs : SeqsUpTo(DocValues,
                          IF f.page_count < MaxLongPages THEN MaxPageLen ELSE 1),
          next : NextCursors]

\* SpecReentry: a server with a short result set, whose cursor advances on at
\* most MaxReentryPages pages, of one document with an id each
ReentryReplies(f) ==
    {r \in Replies(f) :
        /\ \A i \in DOMAIN r.docs : r.docs[i] > 0
        /\ Len(r.docs) <= 1
        /\ (r.next \notin {"", f.cursor_mark} => f.page_count < MaxReentryPages)}

\* SpecPaged: the documents with the ids s, s+1, ..., s+n-1
Run(s, n) == [i \in 1..n |-> s + i - 1]

\* SpecPaged: a page is full (rows documents) or short
PageLens(rows) == {ShortPageLen, rows}

\* SpecPaged: nbDocs below and just above the preview caps
PagedTotals == {MaxTotal, ManualPreviewCap + 1, BulkPreviewCap + 1}

PagedMetricsReplies ==
    {[status |-> "fail", nbDocs |-> 0]} \cup [status : {"ok"}, nbDocs : PagedTotals]

\* SpecPaged: get_reviews of a server whose documents have distinct ids and
\* whose pages are full or short: a failure, a payload the loop cannot
\* process, an empty page, the next documents or the first ones again; the
\* result set ends after MaxPagedPages pages
PagedReplies(f) ==
    {[status |-> "fail", docs |-> <<>>, next |-> ""],
     [status |-> "malformed", docs |-> <<>>, next |-> ""]}
    \cup {r \in [status : {"ok"},
                  docs : {<<>>} \cup {Run(s, n) : s \in {1, Len(f.all_docs) + 1},
                                                  n \in PageLens(ExportParams(f).rows)},
                  next : NextCursors] :
            r.next \notin {"", f.cursor_mark} => f.page_count < MaxPagedPages}

\* SpecFull: nbDocs that takes one page, several pages, and with the smallest
\* rows_per_page one page more than the manual export makes
FullTotals ==
    {MaxTotal, ManualPreviewCap + 1, BulkPreviewCap + 1, ManualMaxIterFull * 10 + 1}

FullMetricsReplies == [status : {"ok"}, nbDocs : FullTotals]

\* SpecView: nbDocs of a result that the view shows on one page, and on two
ViewMetricsReplies == [status : {"ok"}, nbDocs : {MaxTotal, DisplayRowsPerPage + 1}]

\* SpecFull: cursor marks of a server whose cursor advances
FullCursors == {"c1", "c2"}

\* SpecFull: get_reviews of a server that holds total_available documents
\* with distinct ids and delivers them in order, rows to a page, with a
\* cursor that differs from the one sent; the page that exhausts the result
\* set is as long as what is left and carries any cursor or none
FullReplies(f) ==
    LET rest == f.total_available - Len(f.all_docs)
        n == Min(ExportParams(f).rows, rest)
    IN  IF rest <= 0 THEN {}
        ELSE {[status |-> "ok", docs |-> Run(Len(f.all_docs) + 1, n), next |-> c] :
                c \in IF n < rest THEN FullCursors \ {f.cursor_mark}
                      ELSE FullCursors \cup {""}}

----------------------------------------------------------------------------
(* Actions *)

Init ==
    /\ export_in_progress = FALSE
    /\ ss_all_docs = <<>>
    /\ ss_export_params = [rows |-> 0, product |-> FALSE]
    /\ ss_is_preview_mode = TRUE
    /\ export_log = <<>>
    /\ inv = [p \in Procs |-> IdleFrame]
    /\ filters = NoFilters
    /\ apply_filters = FALSE
    /\ selected_product_ids = <<>>
    /\ load_result = "none"
    /\ load_input = "none"
    /\ load_products = <<>>
    /\ current_page = 1

Session == <<ss_all_docs, ss_export_params, ss_is_preview_mode, export_log>>

Config ==
    <<filters, apply_filters, selected_product_ids, load_result, load_input,
      load_products>>

\* CanEnter without the test of the flag
CanEnterAlways(flag) == TRUE

\* if st.session_state.get('export_in_progress', False): ... return
CanEnter(flag) == ~flag

\* the button is pressed, the guard test finds the flag clear and the flag
\* is set: st.session_state.export_in_progress = True; filters is read and
\* the parameters are built
Begin(p, previews) ==
    /\ inv[p].pc = "idle"
    /\ CanEnter(export_in_progress)
    /\ export_in_progress' = TRUE
    /\ \E kind \in Kinds, is_preview \in previews, rows_per_page \in RowsChoices :
         inv' = [inv EXCEPT ![p] =
                   [@ EXCEPT !.pc = "metrics", !.kind = kind,
                             !.is_preview = is_preview,
                             !.rows_per_page = rows_per_page,
                             !.filters = filters,
                             !.params = FilterParams(kind, filters,
                                                     selected_product_ids),
                             !.metrics_params = MetricsParams(kind, filters,
                                                              selected_product_ids)]]
    /\ UNCHANGED <<Session, Config, current_page>>

\* RejectBusy with the guard test inside the try block, so that the finally
\* block of the rejected invocation clears the flag
RejectBusyReleases(p) ==
    /\ inv[p].pc = "idle"
    /\ ~CanEnter(export_in_progress)
    /\ \E kind \in Kinds :
         inv' = [inv EXCEPT ![p] = Exit([@ EXCEPT !.kind = kind], "GUARD_BUSY")]
    /\ export_in_progress' = FALSE
    /\ UNCHANGED <<Session, Config, current_page>>

\* the button is pressed and the guard test finds the flag set: warning, return
RejectBusy(p) ==
    /\ inv[p].pc = "idle"
    /\ ~CanEnter(export_in_progress)
    /\ \E kind \in Kinds :
         inv' = [inv EXCEPT ![p] = Exit([@ EXCEPT !.kind = kind], "GUARD_BUSY")]
    /\ UNCHANGED <<export_in_progress, Session, Config, current_page>>

\* log_export_activity: the row is appended, or the write fails and the
\* exception is caught inside
LogAppend(log, f, written) ==
    IF f.all_docs # <<>> /\ ~f.is_preview /\ written
    THEN Append(log, [nb_reviews |-> Len(f.all_docs),
                      export_type |-> IF f.kind = "bulk" THEN "BULK_BY_BRAND"
                                      ELSE "MANUAL_SELECTION"])
    ELSE log

\* observation: log_export_activity was called and its write failed
LogFailed(f, written) == f.all_docs # <<>> /\ ~f.is_preview /\ ~written

\* Stored with the assignment placed after the logging, and a failure of the
\* log write that propagates: the assignment is skipped
StoredAfterLogging(old, f, written) ==
    IF LogFailed(f, written) THEN old ELSE f.all_docs

\* st.session_state.all_docs = all_docs: the assignment precedes the call of
\* log_export_activity, which catches its own exceptions
Stored(old, f, written) == f.all_docs

\* FinalReport without the expected total, as in the status line of the
\* manual export alone
FinalReportCountOnly(f) ==
    [retrieved |-> Len(f.all_docs), expected |-> Unset, missing |-> FALSE]

\* the final messages: the bulk export shows "n reviews récupérées sur total
\* attendues" when all_docs is not empty, with the warning of missing reviews
\* in full mode, else "Aucune review récupérée"; the manual export always
\* shows "Reviews récupérées" and "Reviews attendues"
FinalReport(f) ==
    IF f.kind = "bulk"
    THEN IF f.all_docs # <<>>
         THEN [retrieved |-> Len(f.all_docs), expected |-> f.total_available,
               missing |-> (Len(f.all_docs) < f.total_available /\ ~f.is_preview)]
         ELSE [retrieved |-> 0, expected |-> Unset, missing |-> FALSE]
    ELSE [retrieved |-> Len(f.all_docs), expected |-> f.total_available,
          missing |-> FALSE]

\* the frame g that a step of the try body leaves.  "stopped": the loop has
\* ended, the results are stored, the final messages are shown, the activity
\* is logged and the finally block releases the guard.  "done": a return or a
\* caught exception, only the finally block runs.  Otherwise the invocation
\* goes on.
Step(p, g) ==
    /\ UNCHANGED <<Config, current_page>>
    /\ IF g.pc = "stopped"
       THEN /\ ss_export_params' = ExportParams(g)
            /\ ss_is_preview_mode' = g.is_preview
            /\ export_in_progress' = GuardAfterExit(g.reason)
            /\ \E written \in BOOLEAN :
                 /\ ss_all_docs' = Stored(ss_all_docs, g, written)
                 /\ export_log' = LogAppend(export_log, g, written)
                 /\ inv' = [inv EXCEPT ![p] =
                               [g EXCEPT !.pc = "done",
                                         !.report = FinalReport(g),
                                         !.log_failed = LogFailed(g, written)]]
       ELSE IF g.pc = "done"
       THEN /\ export_in_progress' = GuardAfterExit(g.reason)
            /\ inv' = [inv EXCEPT ![p] = g]
            /\ UNCHANGED Session
       ELSE /\ inv' = [inv EXCEPT ![p] = g]
            /\ UNCHANGED <<export_in_progress, Session>>

\* api_client.get_metrics(...); the bulk export goes on to the total test,
\* the manual export to its probe
Metrics(p, replies) ==
    /\ inv[p].pc = "metrics"
    /\ \E m \in replies :
         LET f == [inv[p] EXCEPT !.metrics_calls = @ + 1,
                                 !.metrics_failed = (m.status = "fail"),
                                 !.total_available = NbDocs(m)]
         IN  Step(p, IF f.kind = "manual" THEN [f EXCEPT !.pc = "probe"]
                     ELSE AfterMetrics(f))

\* manual export: test_result = api_client.get_reviews(rows=1, cursorMark="*"),
\* then the total test
Probe(p) ==
    /\ inv[p].pc = "probe"
    /\ Step(p, AfterMetrics([inv[p] EXCEPT !.probe_calls = @ + 1]))

\* CursorParam with the start sentinel on every page
CursorParamRestart(cursor_mark) == "*"

\* current_params["nextCursorMark"] = cursor_mark (bulk),
\* current_params["cursorMark"] = cursor_mark (manual)
CursorParam(cursor_mark) == cursor_mark

\* one iteration: page_count += 1, get_reviews with the cursor, the duplicate
\* filter, the stop conditions
FetchPage(p, replies) ==
    /\ inv[p].pc = "loop"
    /\ WhileCond(inv[p].page_count,
                 MaxIterations(inv[p].kind, inv[p].is_preview))
    /\ \E r \in replies :
         Step(p, OnReply([inv[p] EXCEPT !.page_count = NextPageCount(@),
                                        !.sent_cursor =
                                            CursorParam(inv[p].cursor_mark)], r))

\* the while condition fails: the loop ends on the safety limit
LoopExit(p) ==
    /\ inv[p].pc = "loop"
    /\ ~WhileCond(inv[p].page_count,
                  MaxIterations(inv[p].kind, inv[p].is_preview))
    /\ Step(p, [inv[p] EXCEPT !.pc = "stopped", !.reason = "SAFETY_LIMIT"])

\* manual export, identical cursor on page 2: get_reviews(rows=5), then break
RetrySmall(p) ==
    /\ inv[p].pc = "retry"
    /\ Step(p, [inv[p] EXCEPT !.pc = "stopped", !.retry_calls = @ + 1])

\* the object lacks one of the keys every exported configuration carries,
\* or one of its dates does not parse
Incomplete(obj) ==
    \/ \E v \in {obj.start_date, obj.end_date, obj.category, obj.subcategory} :
         v.t = "absent"
    \/ \E v \in {obj.start_date, obj.end_date} : v.t = "str" /\ ~ParsesAsDate(v)

\* observation: the kind of a json_input
InputKind(json_input) ==
    IF json_input.form # "object" THEN json_input.form
    ELSE IF Incomplete(json_input.obj) THEN "incomplete"
    ELSE "complete"

\* observation: the product list a json_input carries, [] when it carries
\* none
InputProducts(json_input) == ProcessListField(json_input.obj.selected_products)

\* the session state that load_configuration_from_json reads and writes
ConfigState ==
    [result |-> load_result, filters |-> filters, apply_filters |-> apply_filters,
     selected_product_ids |-> selected_product_ids]

\* "Charger la configuration": load_configuration_from_json(json_input)
LoadConfiguration(inputs) ==
    /\ \E json_input \in inputs :
         LET new == LoadConfigurationFromJson(json_input, ConfigState)
         IN  /\ load_result' = new.result
             /\ filters' = new.filters
             /\ apply_filters' = new.apply_filters
             /\ selected_product_ids' = new.selected_product_ids
             /\ load_input' = InputKind(json_input)
             /\ load_products' = InputProducts(json_input)
    /\ UNCHANGED <<export_in_progress, Session, inv, current_page>>

\* the configuration that display_current_configuration_export shows for
\* the current filters is pasted back and loaded
ReloadExported ==
    /\ ~filters.empty
    /\ LET json_input == [form |-> "object",
                          obj |-> ExportConfigurationToJson(filters,
                                                            selected_product_ids)]
           new == LoadConfigurationFromJson(json_input, ConfigState)
       IN  /\ load_result' = new.result
           /\ filters' = new.filters
           /\ apply_filters' = new.apply_filters
           /\ selected_product_ids' = new.selected_product_ids
           /\ load_input' = "exported"
           /\ load_products' = InputProducts(json_input)
    /\ UNCHANGED <<export_in_progress, Session, inv, current_page>>

\* "Effacer la configuration", shown when filters is not empty
ClearConfiguration ==
    /\ ~filters.empty
    /\ filters' = NoFilters
    /\ selected_product_ids' = <<>>
    /\ apply_filters' = FALSE
    /\ UNCHANGED <<load_result, load_input, load_products, export_in_progress,
                   Session, inv, current_page>>

\* total_pages = max(1, (total_results + rows_per_page - 1) // rows_per_page)
TotalPages(total_results) ==
    LET pages == (total_results + DisplayRowsPerPage - 1) \div DisplayRowsPerPage
    IN  IF pages >= 1 THEN pages ELSE 1

\* display_export_results / display_bulk_export_results go past their
\* early return: all_docs is not empty (and no export is running)
ResultsShown == ss_all_docs # <<>> /\ \A p \in Procs : inv[p].pc \in {"idle", "done"}

\* st.selectbox("Page", range(1, total_pages + 1), index=current_page - 1)
\* accepts its index; with an index outside the options it raises and the
\* rest of the view, the assignment to current_page included, does not run
SelectboxShown ==
    /\ ResultsShown
    /\ (current_page - 1) \in 0..(TotalPages(Len(ss_all_docs)) - 1)

\* a script run in which the page selector returns page (its initial value,
\* the value it kept or the one the user chose):
\* st.session_state.current_page = current_page
SelectPage ==
    /\ SelectboxShown
    /\ \E page \in 1..TotalPages(Len(ss_all_docs)) : current_page' = page
    /\ UNCHANGED <<export_in_progress, Session, inv, Config>>

\* "Page précédente", rendered before the selector and enabled when
\* current_page > 1
PreviousPage ==
    /\ ResultsShown
    /\ ~(current_page <= 1)
    /\ current_page' = (IF current_page - 1 >= 1 THEN current_page - 1 ELSE 1)
    /\ UNCHANGED <<export_in_progress, Session, inv, Config>>

\* "Page suivante", rendered after the selector has set current_page to the
\* page it returns, and enabled when that page is below total_pages
NextPage ==
    /\ SelectboxShown
    /\ \E page \in 1..TotalPages(Len(ss_all_docs)) :
         /\ ~(page >= TotalPages(Len(ss_all_docs)))
         /\ current_page' = Min(TotalPages(Len(ss_all_docs)), page + 1)
    /\ UNCHANGED <<export_in_progress, Session, inv, Config>>

\* main() shows the export interface when apply_filters and filters are
\* set; display_export_interface returns early without selected products,
\* display_bulk_export_interface without a brand
ExportShown(kind) ==
    /\ apply_filters /\ ~filters.empty
    /\ IF kind = "manual" THEN selected_product_ids # <<>> ELSE filters.brand # <<>>

\* the launch button of an export interface that is shown
BeginShown(p) == Begin(p, BOOLEAN) /\ ExportShown(inv'[p].kind)

\* the configuration panel, used before the export is launched
Configure ==
    /\ \A p \in SeqProcs : inv[p].pc = "idle"
    /\ (LoadConfiguration(SessionInputs) \/ ClearConfiguration)

----------------------------------------------------------------------------
(* Specifications *)

\* Spec: one invocation, as one script run of a session, against a server
\* that may answer anything
Next ==
    \E p \in SeqProcs :
        \/ Begin(p, BOOLEAN)
        \/ Metrics(p, MetricsReplies)
        \/ Probe(p)
        \/ FetchPage(p, Replies(inv[p]))
        \/ LoopExit(p)
        \/ RetrySmall(p)

Spec == Init /\ [][Next]_vars

\* LiveSpec: Spec with the program running on: a call to the API client
\* returns and the next statement executes
LiveSpec == Spec /\ WF_vars(Next)

\* SpecReentry: two invocations in one session, the second made while the
\* first is inside a call or after it returned, in preview mode against a
\* server with a short result set
NextReentry ==
    \E p \in Procs :
        \/ Begin(p, {TRUE})
        \/ RejectBusy(p)
        \/ Metrics(p, MetricsReplies)
        \/ Probe(p)
        \/ FetchPage(p, ReentryReplies(inv[p]))
        \/ RetrySmall(p)

SpecReentry == Init /\ [][NextReentry]_vars

\* SpecPaged: one invocation against a server whose pages have the size the
\* export asks for (rows) or are short, so that the preview caps are reached
NextPaged ==
    \E p \in SeqProcs :
        \/ Begin(p, BOOLEAN)
        \/ Metrics(p, PagedMetricsReplies)
        \/ Probe(p)
        \/ FetchPage(p, PagedReplies(inv[p]))
        \/ RetrySmall(p)

SpecPaged == Init /\ [][NextPaged]_vars

\* SpecConfig: configurations are loaded and cleared
NextConfig == LoadConfiguration(JsonInputs) \/ ClearConfiguration

SpecConfig == Init /\ [][NextConfig]_vars

\* SpecSession: a configuration is loaded, then one export is launched from
\* the interface it enables, against a server with a short result set
NextSession ==
    \/ Configure
    \/ \E p \in SeqProcs :
          \/ BeginShown(p)
          \/ Metrics(p, MetricsReplies)
          \/ Probe(p)
          \/ FetchPage(p, ReentryReplies(inv[p]))
          \/ RetrySmall(p)

SpecSession == Init /\ [][NextSession]_vars

\* SpecFull: one export in full mode against a server that delivers the
\* whole result set
NextFull ==
    \E p \in SeqProcs :
        \/ Begin(p, {FALSE})
        \/ Metrics(p, FullMetricsReplies)
        \/ Probe(p)
        \/ FetchPage(p, FullReplies(inv[p]))
        \/ LoopExit(p)
        \/ RetrySmall(p)

SpecFull == Init /\ [][NextFull]_vars

\* SpecView: two exports in full mode, one after the other, against the
\* server of SpecFull, with the results view and its page controls; the
\* result sets end before the safety limit of the loop
NextView ==
    \/ \E p \in Procs :
          \/ Begin(p, {FALSE})
          \/ Metrics(p, ViewMetricsReplies)
          \/ Probe(p)
          \/ FetchPage(p, FullReplies(inv[p]))
          \/ RetrySmall(p)
    \/ SelectPage
    \/ PreviousPage
    \/ NextPage

SpecView == Init /\ [][NextView]_vars

\* SpecRoundTrip: configurations are loaded, and the exported form of the
\* current one is loaded back
NextRoundTrip ==
    \/ LoadConfiguration(RoundTripInputs)
    \/ ReloadExported
    \/ ClearConfiguration

SpecRoundTrip == Init /\ [][NextRoundTrip]_vars

----------------------------------------------------------------------------
(* Properties *)

\* the invocation is between the guard assignment and the finally block
Holding(p) == inv[p].pc \in {"metrics", "probe", "loop", "retry"}

\* no non-empty id occurs twice in docs
UniqueIds(docs) ==
    \A i, j \in DOMAIN docs : (docs[i] > 0 /\ docs[i] = docs[j]) => i = j

\* C1: the document collection an export stores never holds two documents
\* with the same non-empty id, whether the id is repeated across pages,
\* inside one page or on the first page.
C1_UniqueIds == UniqueIds(ss_all_docs)

\* C2: at most one invocation is between guard acquire and guard release,
\* and the flag is set while one is: an invocation made meanwhile is rejected
\* instead of entering the fetch loop.
C2_SingleFlight ==
    /\ Cardinality({p \in Procs : Holding(p)}) <= 1
    /\ (\E p \in Procs : Holding(p)) => export_in_progress

C2_Witness ==
    \E p, q \in Procs :
        /\ inv[p].kind = "bulk" /\ inv[p].reason = "GUARD_BUSY"
        /\ inv[q].kind = "manual" /\ Holding(q) /\ inv[q].page_count >= 1

\* C3: in the step in which an invocation that acquired the guard returns
\* (normal completion, total_available == 0, failed or empty page, exception)
\* export_in_progress becomes false.
C3_GuardReleased ==
    [][\A p \in Procs :
         (Holding(p) /\ inv'[p].pc = "done") => export_in_progress' = FALSE]_vars

C3_Witness ==
    \E p \in Procs :
        /\ inv[p].pc = "done" /\ inv[p].reason = "EXCEPTION"
        /\ inv[p].all_docs # <<>>
        /\ ~export_in_progress

\* C4: an invocation made while the guard is held returns at once, has issued
\* no metrics and no reviews request, and leaves the flag, the stored results
\* and the frames of the other invocations (their accumulated documents) as
\* they were.
C4_BusyRejected ==
    [][\A p \in Procs :
         (inv[p].pc = "idle" /\ export_in_progress /\ inv'[p] # inv[p]) =>
            /\ inv'[p].pc = "done" /\ inv'[p].reason = "GUARD_BUSY"
            /\ inv'[p].metrics_calls = 0 /\ ReviewCalls(inv'[p]) = 0
            /\ export_in_progress' = export_in_progress
            /\ ss_all_docs' = ss_all_docs
            /\ ss_export_params' = ss_export_params
            /\ ss_is_preview_mode' = ss_is_preview_mode
            /\ \A q \in Procs \ {p} : inv'[q] = inv[q]]_vars

C4_Witness ==
    \E p, q \in Procs :
        /\ inv[p].pc = "done" /\ inv[p].reason = "GUARD_BUSY"
        /\ inv[q].pc = "loop" /\ inv[q].all_docs # <<>>
        /\ export_in_progress

C6_Terminates ==
    \A p \in SeqProcs :
        (inv[p].pc = "metrics") ~> (inv[p].pc = "done" /\ ~export_in_progress)

C6_Witness ==
    \E p \in Procs :
        /\ inv[p].pc = "done" /\ inv[p].reason = "SAFETY_LIMIT"
        /\ Len(inv[p].all_docs) < inv[p].total_available
        /\ inv[p].page_count = BulkMaxIterFull
        /\ ~export_in_progress

\* C7: when the metrics report 0 documents the invocation issues no request
\* to the reviews endpoint and ends with NO_DATA.
C7_NoDataNoRequests ==
    \A p \in Procs :
        inv[p].total_available = 0 =>
            /\ ReviewCalls(inv[p]) = 0
            /\ (inv[p].pc = "done" => inv[p].reason = "NO_DATA")

\* C8: once an invocation has a stop reason it issues no further request to
\* the reviews endpoint.
C8_NoRequestAfterStop ==
    [][\A p \in Procs :
         inv[p].reason # "NONE" => ReviewCalls(inv'[p]) = ReviewCalls(inv[p])]_vars

\* the reason the precedence COMPLETE, PREVIEW_LIMIT, NO_NEXT_CURSOR,
\* CURSOR_STALLED, SAFETY_LIMIT gives for the conditions that hold after the
\* last page of f
FirstInOrder(f) ==
    IF Len(f.all_docs) >= f.total_available THEN "COMPLETE"
    ELSE IF f.is_preview /\ Len(f.all_docs) >= PreviewCap(f.kind) THEN "PREVIEW_LIMIT"
    ELSE IF f.resp_cursor = "" THEN "NO_NEXT_CURSOR"
    ELSE IF f.resp_cursor = f.sent_cursor THEN "CURSOR_STALLED"
    ELSE IF f.page_count >= MaxIterations(f.kind, f.is_preview) THEN "SAFETY_LIMIT"
    ELSE "NONE"

\* C9: an invocation that stops on one of the five conditions stops with the
\* first that holds in the order COMPLETE, PREVIEW_LIMIT, NO_NEXT_CURSOR,
\* CURSOR_STALLED, SAFETY_LIMIT.
C9_Precedence ==
    \A p \in Procs :
        inv[p].reason \in {"COMPLETE", "PREVIEW_LIMIT", "NO_NEXT_CURSOR",
                           "CURSOR_STALLED", "SAFETY_LIMIT"}
            => inv[p].reason = FirstInOrder(inv[p])

\* the server delivered total_available documents with distinct non-empty ids
\* in non-empty pages with advancing cursors, the last with an empty cursor
DeliveredAll(f) ==
    /\ f.pc = "done"
    /\ f.reason \notin {"NONE", "GUARD_BUSY", "NO_DATA", "EXCEPTION", "ERROR",
                        "EMPTY_PAGE"}
    /\ f.page_count >= 1
    /\ f.clean
    /\ Len(f.all_docs) = f.total_available
    /\ f.resp_cursor = ""

\* C10: when the server delivers exactly total_available distinct documents
\* over k non-empty pages and ends with an empty cursor, the invocation stores
\* all of them after k page requests and stops with COMPLETE.
C10_CompleteDelivery ==
    \A p \in Procs :
        DeliveredAll(inv[p]) =>
            /\ ss_all_docs = inv[p].all_docs
            /\ inv[p].reason = "COMPLETE"

C12_PreviewCapped ==
    \A p \in Procs :
        inv[p].is_preview =>
            /\ Len(inv[p].all_docs) <= PreviewCap(inv[p].kind)
            /\ (inv[p].pc = "done" /\ inv[p].page_count >= 1
                   /\ inv[p].reason # "EXCEPTION")
                 => Len(ss_all_docs) <= PreviewCap(inv[p].kind)

\* C13: a preview whose total_available exceeds the preview cap never stops
\* with COMPLETE, and when it stops with the collection at or over the cap
\* the reason is PREVIEW_LIMIT.
C13_PreviewNeverComplete ==
    \A p \in Procs :
        (inv[p].is_preview /\ inv[p].pc = "done"
         /\ inv[p].total_available > PreviewCap(inv[p].kind)) =>
            /\ inv[p].reason # "COMPLETE"
            /\ Len(inv[p].all_docs) >= PreviewCap(inv[p].kind)
                 => inv[p].reason = "PREVIEW_LIMIT"

\* the step processes a page: a reply with documents went through the
\* duplicate filter
PageProcessed(p) ==
    /\ inv[p].pc = "loop"
    /\ inv'[p].page_count = inv[p].page_count + 1
    /\ inv'[p].reason \notin {"ERROR", "EMPTY_PAGE", "EXCEPTION"}

\* C14: for every page the number of duplicates reported equals the number
\* of its documents whose non-empty id was delivered by an earlier page, and
\* exactly the other documents of the page are appended.
C14_DuplicatesExact ==
    [][\A p \in Procs :
         PageProcessed(p) =>
            /\ inv'[p].duplicates_found = inv'[p].seen_before
            /\ Len(inv'[p].all_docs) - Len(inv[p].all_docs)
                 = Len(inv'[p].docs) - inv'[p].seen_before]_vars

\* a is an initial segment of b
IsPrefix(a, b) == Len(a) <= Len(b) /\ SubSeq(b, 1, Len(a)) = a

\* a is b with some elements left out, the others in the order of b
IsSubsequence(a, b) ==
    \E g \in [1..Len(a) -> 1..Len(b)] :
        /\ \A i, j \in 1..Len(a) : i < j => g[i] < g[j]
        /\ \A i \in 1..Len(a) : b[g[i]] = a[i]

\* C15: in every step the accumulated list keeps its earlier value as a
\* prefix; what a page appends are documents of that page in the order of
\* the page; the list that is stored is the accumulated list.
C15_AppendOnly ==
    [][/\ \A p \in Procs :
            /\ IsPrefix(inv[p].all_docs, inv'[p].all_docs)
            /\ PageProcessed(p) =>
                 IsSubsequence(SubSeq(inv'[p].all_docs, Len(inv[p].all_docs) + 1,
                                      Len(inv'[p].all_docs)),
                               inv'[p].docs)
       /\ ss_all_docs' # ss_all_docs =>
            \E p \in Procs : /\ inv[p].pc # "done" /\ inv'[p].pc = "done"
                             /\ ss_all_docs' = inv'[p].all_docs]_vars

C15_Witness ==
    \E p \in Procs :
        /\ inv[p].pc = "done" /\ inv[p].page_count >= 2
        /\ inv[p].duplicates_found >= 1
        /\ Len(inv[p].all_docs) >= 2
        /\ ss_all_docs = inv[p].all_docs

\* C16: the step in which a page request fails ends the invocation with
\* the error reported: the request is not repeated, the documents of the
\* earlier pages are unchanged and are what is stored; no request follows.
C16_FailedPage ==
    [][\A p \in Procs :
         /\ (inv[p].pc = "loop" /\ inv'[p].reason = "ERROR") =>
               /\ inv'[p].pc = "done"
               /\ inv'[p].page_count = inv[p].page_count + 1
               /\ ReviewCalls(inv'[p]) = ReviewCalls(inv[p]) + 1
               /\ inv'[p].all_docs = inv[p].all_docs
               /\ ss_all_docs' = inv[p].all_docs
         /\ inv[p].reason = "ERROR" => inv'[p] = inv[p]]_vars

C16_Witness ==
    \E p \in Procs :
        /\ inv[p].pc = "done" /\ inv[p].reason = "ERROR"
        /\ inv[p].page_count >= 2
        /\ inv[p].all_docs # <<>>
        /\ ss_all_docs = inv[p].all_docs

\* C17: a run that ends on the safety limit with fewer documents than
\* expected shows a final report in which the retrieved count is below the
\* expected total, and a run that ends with COMPLETE shows one in which it is
\* not: the two outcomes differ, in the manual and in the bulk export.
C17_SafetyLimitDistinct ==
    \A p \in Procs :
        inv[p].pc = "done" =>
            /\ (inv[p].reason = "SAFETY_LIMIT"
                 /\ Len(inv[p].all_docs) < inv[p].total_available) =>
                   /\ inv[p].report.expected # Unset
                   /\ inv[p].report.retrieved < inv[p].report.expected
            /\ inv[p].reason = "COMPLETE" =>
                   /\ inv[p].report.expected # Unset
                   /\ inv[p].report.retrieved >= inv[p].report.expected

C17_Witness ==
    \E p \in Procs :
        /\ inv[p].pc = "done" /\ inv[p].reason = "SAFETY_LIMIT"
        /\ inv[p].kind = "manual" /\ inv[p].page_count = ManualMaxIterFull
        /\ Len(inv[p].all_docs) < inv[p].total_available
        /\ inv[p].report.retrieved < inv[p].report.expected

\* C18: when an invocation ends on an exception raised inside the loop, the
\* documents accumulated up to then are what the session holds as its result.
C18_ExceptionKeepsPartial ==
    \A p \in Procs :
        (inv[p].pc = "done" /\ inv[p].reason = "EXCEPTION" /\ inv[p].page_count >= 1)
            => ss_all_docs = inv[p].all_docs

\* C19: a full-mode invocation whose metrics call failed issues no request
\* to the reviews endpoint.
C19_MetricsFailureStops ==
    \A p \in Procs :
        (inv[p].metrics_failed /\ ~inv[p].is_preview) => ReviewCalls(inv[p]) = 0

\* the step is a call of load_configuration_from_json (and not the clearing
\* of the configuration)
LoadStep == filters.empty \/ ~filters'.empty

\* C20: a call of the import that refuses its input leaves filters,
\* apply_filters and selected_product_ids as they were, and an input that is
\* not an object, lacks fields or holds an unparseable date is refused.
C20_InvalidNeverApplied ==
    [][LoadStep =>
         /\ load_result' = "rejected" =>
              /\ filters' = filters
              /\ apply_filters' = apply_filters
              /\ selected_product_ids' = selected_product_ids
         /\ load_input' \in {"text", "broken", "incomplete"}
              => load_result' = "rejected"]_vars

\* C21: when the write of the activity log fails, the invocation still ends
\* normally: the documents it fetched are the stored result, the guard is
\* released and no exception ends the export.
C21_LogFailureHarmless ==
    \A p \in SeqProcs :
        inv[p].log_failed =>
            /\ inv[p].pc = "done"
            /\ inv[p].reason # "EXCEPTION"
            /\ ss_all_docs = inv[p].all_docs
            /\ ~export_in_progress
            /\ export_log = <<>>

C21_Witness ==
    \E p \in SeqProcs :
        /\ inv[p].log_failed /\ inv[p].pc = "done"
        /\ inv[p].page_count >= 2 /\ Len(inv[p].all_docs) >= 2
        /\ ss_all_docs = inv[p].all_docs
        /\ ~export_in_progress

\* C22: the step in which an invocation ends because the metrics report 0
\* documents leaves an empty collection as the stored result, which is what
\* the results view reads.
C22_NoDataEmptyResult ==
    [][\A p \in Procs :
         (inv[p].pc # "done" /\ inv'[p].pc = "done" /\ inv'[p].reason = "NO_DATA")
            => ss_all_docs' = <<>>]_vars

\* the filter fields of a query
FilterFields ==
    {"category", "subcategory", "brand", "country", "source", "market",
     "attribute", "attribute_positive", "attribute_negative"}

\* a single-valued field that is left out, empty or "ALL"
NoRestriction(v) == v.t = "absent" \/ v = Str(<<>>) \/ v = Str(ALL)

\* a multi-valued field that is empty or "ALL"
NoRestrictionList(l) == l = <<>> \/ l = <<ALL>>

\* the fields of fl that are "ALL" or empty are absent from the query q
FieldsOmitted(fl, q) ==
    /\ NoRestriction(fl.category) => q.category = Absent
    /\ NoRestriction(fl.subcategory) => q.subcategory = Absent
    /\ NoRestrictionList(fl.brand) => q.brand = Absent
    /\ NoRestrictionList(fl.country) => q.country = Absent
    /\ NoRestrictionList(fl.source) => q.source = Absent
    /\ NoRestrictionList(fl.market) => q.market = Absent
    /\ NoRestrictionList(fl.attributes) => q.attribute = Absent
    /\ NoRestrictionList(fl.attributes_positive) => q.attribute_positive = Absent
    /\ NoRestrictionList(fl.attributes_negative) => q.attribute_negative = Absent

\* no filter field of the query q has the value "ALL" or an empty value
NoAllNoEmpty(q) == \A k \in FilterFields : q[k] # Str(ALL) /\ q[k] # Str(<<>>)

\* C23: in the parameters sent to the metrics endpoint and to the reviews
\* endpoint no filter field has the value "ALL" or an empty value, and a
\* field of the filter set that is "ALL" or empty is absent from them.
C23_AllAndEmptyOmitted ==
    \A p \in Procs :
        /\ inv[p].metrics_calls >= 1 =>
              /\ NoAllNoEmpty(CleanParams(inv[p].metrics_params))
              /\ FieldsOmitted(inv[p].filters, CleanParams(inv[p].metrics_params))
        /\ ReviewCalls(inv[p]) >= 1 =>
              /\ NoAllNoEmpty(CleanParams(inv[p].params))
              /\ FieldsOmitted(inv[p].filters, CleanParams(inv[p].params))

C23_Witness ==
    \E p \in Procs :
        /\ inv[p].kind = "bulk" /\ inv[p].page_count >= 1
        /\ inv[p].filters.brand = <<ALL>>
        /\ inv[p].filters.category = Str(<<>>)
        /\ inv[p].filters.attributes = <<ALL>>
        /\ inv[p].filters.country = <<<<"a">>>>
        /\ CleanParams(inv[p].params).brand = Absent
        /\ CleanParams(inv[p].params).country = Str(<<"a">>)

AfterMetricsCall(f) ==
    f.pc \in {"probe", "loop", "retry"} \/ (f.pc = "done" /\ f.reason # "GUARD_BUSY")

\* C25: an invocation that passed the guard test calls the metrics endpoint
\* exactly once, before any call of the reviews endpoint, and with the
\* filter parameters that its requests to the reviews endpoint carry besides
\* rows, cursor and random.
C25_MetricsOnceSameFilters ==
    \A p \in Procs :
        /\ inv[p].metrics_calls <= 1
        /\ inv[p].metrics_calls = 0 => ReviewCalls(inv[p]) = 0
        /\ AfterMetricsCall(inv[p]) =>
              /\ inv[p].metrics_calls = 1
              /\ CleanParams(inv[p].metrics_params) = CleanParams(inv[p].params)

C25_Witness ==
    \E p \in Procs :
        /\ inv[p].kind = "manual" /\ inv[p].page_count >= 2
        /\ inv[p].metrics_calls = 1
        /\ CleanParams(inv[p].params).product = Str(<<"a">>)
        /\ CleanParams(inv[p].params).brand = Str(<<"a">>)
        /\ CleanParams(inv[p].metrics_params).product = Str(<<"a">>)

\* C26: a full-mode invocation against a server that delivers distinct
\* documents, rows to a page, with advancing cursors, ends with all
\* total_available documents accumulated and stored, unless it made the
\* 1000 (bulk) or 20 (manual) page requests of the safety limit first.
C26_FullCompletes ==
    \A p \in SeqProcs :
        (inv[p].pc = "done" /\ ~inv[p].is_preview /\ inv[p].page_count >= 1) =>
            /\ ss_all_docs = inv[p].all_docs
            /\ \/ Len(inv[p].all_docs) = inv[p].total_available
               \/ /\ inv[p].reason = "SAFETY_LIMIT"
                  /\ inv[p].page_count = IF inv[p].kind = "bulk" THEN BulkMaxIterFull
                                         ELSE ManualMaxIterFull
                  /\ Len(inv[p].all_docs) = inv[p].page_count * ExportParams(inv[p]).rows

C26_Witness ==
    \E p \in SeqProcs :
        /\ inv[p].pc = "done" /\ inv[p].kind = "bulk" /\ ~inv[p].is_preview
        /\ inv[p].page_count > ManualMaxIterFull
        /\ Len(inv[p].all_docs) = inv[p].total_available
        /\ inv[p].total_available > BulkPreviewCap
        /\ inv[p].reason = "COMPLETE"
        /\ ss_all_docs = inv[p].all_docs

\* C27: a step in which an invocation calls the reviews endpoint starts in a
\* state in which it has accumulated fewer documents than total_available.
C27_NoRequestWhenComplete ==
    [][\A p \in Procs :
         (ReviewCalls(inv'[p]) > ReviewCalls(inv[p]) /\ inv[p].total_available >= 0)
            => Len(inv[p].all_docs) < inv[p].total_available]_vars

\* C28: a call of the import that accepts its input leaves in
\* selected_product_ids the product list of that input, the empty list when
\* the input carries none.
C28_ProductsReplaced ==
    [][(LoadStep /\ load_result' = "accepted")
          => selected_product_ids' = load_products']_vars

\* C29: whenever the results view is rendered (the stored collection is
\* not empty), current_page is one of the pages 1..total_pages of the stored
\* collection.
C29_CurrentPageInRange ==
    ResultsShown => current_page \in 1..TotalPages(Len(ss_all_docs))

\* the item has no comma and no blank at either end
NoCommaNoPad(item) == (\A i \in DOMAIN item : item[i] # ",") /\ Strip(item) = item

\* the list fields of fl that are exported as one string
JoinedLists(fl) == {fl.brand, fl.country, fl.source, fl.market}

\* every item of the list fields has no comma and no blank at either end
EntriesPlain(fl) ==
    \A l \in JoinedLists(fl) \cup
             {fl.attributes, fl.attributes_positive, fl.attributes_negative} :
        \A i \in DOMAIN l : NoCommaNoPad(l[i])

\* the step loads the exported form of the filters it starts from and the
\* derived query is the same after it
RoundTripKeepsQuery ==
    BuildFilterParams(filters', FALSE, <<>>) = BuildFilterParams(filters, FALSE, <<>>)

\* C30 as stated: loading the exported form of a filter set whose list
\* items have no comma and no blank at either end leaves
\* build_filter_params of the filters unchanged.
C30_RoundTrip ==
    [][(ReloadExported /\ EntriesPlain(filters))
          => RoundTripKeepsQuery]_vars

\* C30 (amended): the same for a filter set whose list items are, besides,
\* not empty.
C30_RoundTripAmended ==
    [][(ReloadExported /\ EntriesPlain(filters)
        /\ \A l \in JoinedLists(filters) : \A i \in DOMAIN l : l[i] # <<>>)
          => RoundTripKeepsQuery]_vars

C30_Witness ==
    /\ load_input = "exported" /\ load_result = "accepted"
    /\ filters.brand = <<<<"a">>, <<"a">>>>
    /\ filters.category = Str(<<"a">>)
    /\ filters.country = <<<<"a">>>>
    /\ filters.attributes = <<<<"a">>>>
    /\ filters.start_date = Date(1)

====
